---- MODULE Spec2Model ----
(***************************************************************************)
(* Model of src/feedback_loop.py: SystemMetricsCollector (collect_data,    *)
(* store_data), IntegrationAnalyzer.analyze_data,                          *)
(* OptimizationEngine.apply_recommendation and                             *)
(* FeedbackCollectorAgent.collect_and_analyze.                             *)
(*                                                                         *)
(* Python values are records [t, s, n]: t is the type ("none", "int",      *)
(* "real", "text"), n the number of an int or a real (a real n stands for  *)
(* the float n.0), and a text is the pair (s, n): "iso" n is the           *)
(* isoformat() text of clock reading n, "int" n and "real" n are the       *)
(* decimal texts of the int n and of the float n.0, any other s is the     *)
(* literal text s.  A dict is a function from its keys to its values, the  *)
(* empty dict is << >>.                                                    *)
(***************************************************************************)
EXTENDS Integers, Sequences, FiniteSets, TLC

\* ------------------------------------------------------------- bounds
MaxClock == 2    \* datetime.now() reads 1..MaxClock
MaxHeap  == 2    \* snapshot records constructed by collect_data
MaxRows  == 2    \* rows of system_metrics
MaxLeaks == 1    \* connections opened and never closed

\* ------------------------------------------------------------- values
NoneV      == [t |-> "none", s |-> "",  n |-> 0]
IntV(x)    == [t |-> "int",  s |-> "",  n |-> x]
RealV(x)   == [t |-> "real", s |-> "",  n |-> x]
TextV(s, x) == [t |-> "text", s |-> s,   n |-> x]

IsNumber(v) == v.t \in {"int", "real"}

\* Python's ==: an int and a float of the same number are equal, a text
\* equals only the same text, None only None.
PyEq(a, b) ==
    \/ IsNumber(a) /\ IsNumber(b) /\ a.n = b.n
    \/ a.t = "text" /\ b.t = "text" /\ a.s = b.s /\ a.n = b.n
    \/ a.t = "none" /\ b.t = "none"

EmptyDict == << >>
Has(d, k) == k \in DOMAIN d
\* dict.get(k): None for a missing key
Get(d, k) == IF Has(d, k) THEN d[k] ELSE NoneV
Truthy(d) == DOMAIN d # {}

\* ------------------------------------------------------------- exceptions
\* isException: an instance of Exception (KeyboardInterrupt, SystemExit and
\* GeneratorExit are not); strFails: str(e) raises.
NoExc             == [name |-> "",                  isException |-> FALSE, strFails |-> FALSE]
TypeError         == [name |-> "TypeError",         isException |-> TRUE,  strFails |-> FALSE]
KeyError          == [name |-> "KeyError",          isException |-> TRUE,  strFails |-> FALSE]
KeyboardInterrupt == [name |-> "KeyboardInterrupt", isException |-> FALSE, strFails |-> FALSE]
RuntimeError      == [name |-> "RuntimeError",      isException |-> TRUE,  strFails |-> FALSE]
UnprintableError  == [name |-> "UnprintableError",  isException |-> TRUE,  strFails |-> TRUE]
StrFailure        == [name |-> "StrFailure",        isException |-> TRUE,  strFails |-> FALSE]

\* The result of a call: it returned val, or it raised exc.
Ret(v)   == [raised |-> FALSE, exc |-> NoExc, val |-> v]
Raise(e) == [raised |-> TRUE,  exc |-> e,     val |-> EmptyDict]

\* ------------------------------------------------------------- thresholds
CpuThreshold == 80
MemThreshold == 85
StubCpu      == 75
StubMem      == 85

CpuMessage == "High CPU usage detected, consider load balancing."
MemMessage == "Memory usage is critical; potential memory leak."

\* The record collect_data builds at clock reading now.
StubSnapshot(now) ==
    [timestamp    |-> TextV("iso", now),
     cpu_usage    |-> RealV(StubCpu),
     memory_usage |-> RealV(StubMem),
     system_id    |-> TextV("primary_server", 0)]

\* x > 80.0 in Python: a TypeError unless x is a number.
Comparable(v) == IsNumber(v)

\* One dict with the entries of a and of b.
Merge(a, b) == [k \in (DOMAIN a) \cup (DOMAIN b) |-> IF k \in DOMAIN b THEN b[k] ELSE a[k]]

\* An analyzer that looks at memory_usage only when cpu_usage is not flagged.
analyze_data_elif(data) ==
    LET cpu == Get(data, "cpu_usage")
        mem == Get(data, "memory_usage")
    IN  IF ~Comparable(cpu) THEN Raise(TypeError)
        ELSE IF cpu.n > CpuThreshold THEN Ret([cpu |-> CpuMessage])
        ELSE IF ~Comparable(mem) THEN Raise(TypeError)
        ELSE IF mem.n > MemThreshold THEN Ret([memory |-> MemMessage])
        ELSE Ret(EmptyDict)

\* An analyzer that flags a value equal to its threshold.
analyze_data_ge(data) ==
    LET cpu == Get(data, "cpu_usage")
        mem == Get(data, "memory_usage")
    IN  IF ~Comparable(cpu) THEN Raise(TypeError)
        ELSE IF ~Comparable(mem) THEN Raise(TypeError)
        ELSE Ret(Merge(IF cpu.n >= CpuThreshold THEN [cpu |-> CpuMessage] ELSE EmptyDict,
                       IF mem.n >= MemThreshold THEN [memory |-> MemMessage] ELSE EmptyDict))

\* IntegrationAnalyzer.analyze_data
analyze_data(data) ==
    LET cpu == Get(data, "cpu_usage")
        mem == Get(data, "memory_usage")
    IN  IF ~Comparable(cpu) THEN Raise(TypeError)
        ELSE IF ~Comparable(mem) THEN Raise(TypeError)
        ELSE Ret(Merge(IF cpu.n > CpuThreshold THEN [cpu |-> CpuMessage] ELSE EmptyDict,
                       IF mem.n > MemThreshold THEN [memory |-> MemMessage] ELSE EmptyDict))

\* An optimizer that knows the key 'cpu' alone.
apply_recommendation_cpu_only(recommendation) ==
    IF "cpu" \in DOMAIN recommendation THEN Ret(TRUE) ELSE Ret(FALSE)

\* OptimizationEngine.apply_recommendation
apply_recommendation(recommendation) ==
    IF "cpu" \in DOMAIN recommendation THEN Ret(TRUE)
    ELSE IF "memory" \in DOMAIN recommendation THEN Ret(TRUE)
    ELSE Ret(FALSE)

\* ------------------------------------------------------------- collector
\* A collector that updates the dict it holds instead of building one.
collect_data_in_place(h, m, now) ==
    IF m = 0
    THEN [heap |-> Append(h, StubSnapshot(now)), metrics |-> Len(h) + 1,
          ref |-> Len(h) + 1, out |-> Ret(StubSnapshot(now))]
    ELSE [heap |-> [h EXCEPT ![m] = StubSnapshot(now)], metrics |-> m,
          ref |-> m, out |-> Ret(StubSnapshot(now))]

\* SystemMetricsCollector.collect_data, on the heap h of the records built so
\* far and the collector's _metrics m (0: the empty dict of __init__, else an
\* index of h): the heap and _metrics after it, the record it returns (ref)
\* and the outcome of the call.
collect_data(h, m, now) ==
    [heap |-> Append(h, StubSnapshot(now)), metrics |-> Len(h) + 1,
     ref |-> Len(h) + 1, out |-> Ret(StubSnapshot(now))]

\* ------------------------------------------------------------- database
\* SQLite column affinity of the TEXT columns (timestamp, system_id): a number
\* is stored as its decimal text.
TextAffinity(v) ==
    CASE v.t = "int"  -> TextV("int", v.n)
      [] v.t = "real" -> TextV("real", v.n)
      [] OTHER        -> v

\* SQLite column affinity of the REAL columns (cpu_usage, memory_usage): an
\* integer, and a text that is a well-formed number, are stored as a float.
RealAffinity(v) ==
    CASE v.t = "int" -> RealV(v.n)
      [] v.t = "text" /\ v.s \in {"int", "real"} -> RealV(v.n)
      [] OTHER -> v

Columns == <<"timestamp", "cpu_usage", "memory_usage", "system_id">>

\* feedback.db before the first store_data: no table, no connection.  seq is
\* the AUTOINCREMENT counter (sqlite_sequence), open the number of
\* connections opened and not closed.
EmptyDb == [exists |-> FALSE, rows |-> << >>, seq |-> 0, open |-> 0]

MissingColumns(data) == {i \in 1..Len(Columns) : ~Has(data, Columns[i])}

NewRow(db, data) ==
    [id           |-> db.seq + 1,
     timestamp    |-> TextAffinity(data["timestamp"]),
     cpu_usage    |-> RealAffinity(data["cpu_usage"]),
     memory_usage |-> RealAffinity(data["memory_usage"]),
     system_id    |-> TextAffinity(data["system_id"])]

\* A store_data that replaces the row of an equal snapshot instead of adding one.
store_data_upsert(db, data) ==
    LET created == [db EXCEPT !.open = @ + 1, !.exists = TRUE]
        row     == NewRow(created, data)
        same(r) == /\ r.timestamp = row.timestamp /\ r.cpu_usage = row.cpu_usage
                   /\ r.memory_usage = row.memory_usage /\ r.system_id = row.system_id
    IN  IF MissingColumns(data) # {}
        THEN [db |-> created, out |-> Raise(KeyError)]
        ELSE [db  |-> [created EXCEPT !.rows = Append(SelectSeq(@, LAMBDA r : ~same(r)), row),
                                      !.seq = @ + 1, !.open = @ - 1],
              out |-> Ret(NoneV)]

\* A store_data that looks its fields up before it opens the database.
store_data_checked_first(db, data) ==
    LET created == [db EXCEPT !.open = @ + 1, !.exists = TRUE]
    IN  IF MissingColumns(data) # {}
        THEN [db |-> db, out |-> Raise(KeyError)]
        ELSE [db  |-> [created EXCEPT !.rows = Append(@, NewRow(created, data)),
                                      !.seq = @ + 1, !.open = @ - 1],
              out |-> Ret(NoneV)]

\* SystemMetricsCollector.store_data: connect, CREATE TABLE IF NOT EXISTS
\* (outside any transaction, so it is durable at once), then the parameter
\* tuple is built (a KeyError on the first missing key leaves the function
\* here, with the connection open), INSERT, commit, close.
store_data(db, data) ==
    LET created == [db EXCEPT !.open = @ + 1, !.exists = TRUE]
    IN  IF MissingColumns(data) # {}
        THEN [db |-> created, out |-> Raise(KeyError)]
        ELSE [db  |-> [created EXCEPT !.rows = Append(@, NewRow(created, data)),
                                      !.seq = @ + 1, !.open = @ - 1],
              out |-> Ret(NoneV)]

\* ------------------------------------------------------------- orchestrator
\* A component of the agent: the class __init__ installs ("real"), or a
\* stand-in whose call ends in the given outcome ("mock").
Component(kind, out) == [kind |-> kind, out |-> out]
RealCollector == Component("real", Ret(EmptyDict))
RealAnalyzer  == Component("real", Ret(EmptyDict))
RealOptimizer == Component("real", Ret(TRUE))

Fin(outcome, exc) == [outcome |-> outcome, exc |-> exc]

\* A handler that lets the failure through.
Handler_reraise(e) == Fin("raise", e)

\* except Exception as e: logging.error(..., str(e)); return False
Handler(e) ==
    IF ~e.isException THEN Fin("raise", e)
    ELSE IF e.strFails THEN Fin("raise", StrFailure)
    ELSE Fin("false", NoExc)

\* colRet, anaRet, optRet: how each step that was called went ("none": not
\* called); stepExc: the exception a step raised (NoExc: none did).
Run(c, calls, data, insights, applied, rets, stepExc, fin) ==
    [heap |-> c.heap, metrics |-> c.metrics, ref |-> c.ref, calls |-> calls,
     data |-> data, insights |-> insights, applied |-> applied,
     colRet |-> rets[1], anaRet |-> rets[2], optRet |-> rets[3],
     stepExc |-> stepExc, outcome |-> fin.outcome, exc |-> fin.exc]

BoolName(b) == IF b THEN "true" ELSE "false"

\* A collect_and_analyze that applies the insights whether or not there are any.
collect_and_analyze_always_apply(col, ana, opt, h, m, now) ==
    LET c == IF col.kind = "real" THEN collect_data(h, m, now)
             ELSE [heap |-> h, metrics |-> m, ref |-> 0, out |-> col.out]
    IN  IF c.out.raised
        THEN Run(c, <<"collect_data">>, EmptyDict, EmptyDict, << >>,
                 <<"raise", "none", "none">>, c.out.exc, Handler(c.out.exc))
        ELSE
        LET data == c.out.val
            a    == IF ana.kind = "real" THEN analyze_data(data) ELSE ana.out
        IN  IF a.raised
            THEN Run(c, <<"collect_data", "analyze_data">>, data, EmptyDict, << >>,
                     <<"dict", "raise", "none">>, a.exc, Handler(a.exc))
            ELSE
            LET o == IF opt.kind = "real" THEN apply_recommendation(a.val) ELSE opt.out
            IN  IF o.raised
                THEN Run(c, <<"collect_data", "analyze_data", "apply_recommendation">>,
                         data, a.val, <<a.val>>, <<"dict", "dict", "raise">>, o.exc,
                              Handler(o.exc))
                ELSE Run(c, <<"collect_data", "analyze_data", "apply_recommendation">>,
                         data, a.val, <<a.val>>, <<"dict", "dict", BoolName(o.val)>>,
                         NoExc, Fin(BoolName(o.val), NoExc))

\* FeedbackCollectorAgent.collect_and_analyze with the components col, ana and
\* opt, on heap h and the collector's _metrics m, the clock reading now: the
\* calls it makes in order, the snapshot and the insights it got, the
\* arguments it applied, what apply_recommendation returned (optRet) and how
\* it ends (outcome "true", "false", or "raise" with the exception exc).
collect_and_analyze(col, ana, opt, h, m, now) ==
    LET c == IF col.kind = "real" THEN collect_data(h, m, now)
             ELSE [heap |-> h, metrics |-> m, ref |-> 0, out |-> col.out]
    IN  IF c.out.raised
        THEN Run(c, <<"collect_data">>, EmptyDict, EmptyDict, << >>,
                 <<"raise", "none", "none">>, c.out.exc, Handler(c.out.exc))
        ELSE
        LET data == c.out.val
            a    == IF ana.kind = "real" THEN analyze_data(data) ELSE ana.out
        IN  IF a.raised
            THEN Run(c, <<"collect_data", "analyze_data">>, data, EmptyDict, << >>,
                     <<"dict", "raise", "none">>, a.exc, Handler(a.exc))
            ELSE IF Truthy(a.val)
            THEN LET o == IF opt.kind = "real" THEN apply_recommendation(a.val) ELSE opt.out
                 IN  IF o.raised
                     THEN Run(c, <<"collect_data", "analyze_data", "apply_recommendation">>,
                              data, a.val, <<a.val>>, <<"dict", "dict", "raise">>, o.exc,
                              Handler(o.exc))
                     ELSE Run(c, <<"collect_data", "analyze_data", "apply_recommendation">>,
                              data, a.val, <<a.val>>, <<"dict", "dict", BoolName(o.val)>>,
                              NoExc, Fin(BoolName(o.val), NoExc))
            ELSE Run(c, <<"collect_data", "analyze_data">>, data, a.val, << >>,
                     <<"dict", "dict", "none">>, NoExc, Fin("true", NoExc))

\* ------------------------------------------------------------- state
VARIABLES
    heap,      \* the snapshot records collect_data has built, in order
    metrics,   \* the agent's collector's _metrics: 0 (the {} of __init__) or an index of heap
    db,        \* feedback.db
    nStored,   \* history: the store_data calls that returned
    recent,    \* history: what the collector's latest collect_data returned (0: no call yet)
    last       \* history: the last call made and how it went

vars == <<heap, metrics, db, nStored, recent, last>>

Blank ==
    [op |-> "init", ref |-> 0, calls |-> << >>, data |-> EmptyDict,
     insights |-> EmptyDict, applied |-> << >>, colRet |-> "none", anaRet |-> "none",
     optRet |-> "none", stepExc |-> NoExc, outcome |-> "none", exc |-> NoExc]

\* ------------------------------------------------------------- inputs
Clock == 1..MaxClock

\* A caller's dict with every column, none of the type collect_data gives it.
OddlyTyped ==
    [timestamp |-> IntV(1), cpu_usage |-> IntV(90), memory_usage |-> TextV("int", 90),
     system_id |-> NoneV]

\* A caller's dict typed as collect_data types it, None where nothing is known.
Unknown ==
    [timestamp |-> NoneV, cpu_usage |-> NoneV, memory_usage |-> RealV(90),
     system_id |-> TextV("backup_server", 0)]

Without(d, k) == [x \in (DOMAIN d) \ {k} |-> d[x]]

\* Callers' dicts that lack a column.
Partial == {Without(StubSnapshot(1), Columns[i]) : i \in 1..Len(Columns)} \cup {EmptyDict}

\* What store_data is called with: a record collect_data returned, or a dict
\* of the caller's own.
StoreArgs == {heap[i] : i \in 1..Len(heap)} \cup {OddlyTyped, Unknown} \cup Partial

Snapshot(cpu, mem) ==
    [timestamp |-> TextV("iso", 1), cpu_usage |-> cpu, memory_usage |-> mem,
     system_id |-> TextV("primary_server", 0)]

CpuValues == {RealV(75), RealV(80), RealV(81), IntV(90)}
MemValues == {RealV(80), RealV(85), RealV(86), IntV(90)}
NumericSnapshots == {Snapshot(c, m) : c \in CpuValues, m \in MemValues}
OtherSnapshots ==
    {EmptyDict, Without(Snapshot(RealV(90), RealV(90)), "memory_usage"),
     Snapshot(NoneV, RealV(90)), Snapshot(RealV(90), TextV("int", 90))}
AnalyzeArgs == NumericSnapshots \cup OtherSnapshots

InsightKeys == {"cpu", "memory", "disk"}
ApplyArgs == {[k \in K |-> v] : K \in SUBSET InsightKeys, v \in {CpuMessage, ""}}

MockExceptions == {RuntimeError, UnprintableError, KeyboardInterrupt}
MockSnapshots == {Snapshot(RealV(75), RealV(86)), Snapshot(RealV(81), RealV(85)), EmptyDict}
MockInsights  == {EmptyDict, [memory |-> MemMessage], [disk |-> "Disk is full."]}

Collectors == {RealCollector} \cup {Component("mock", Ret(d)) : d \in MockSnapshots}
                  \cup {Component("mock", Raise(e)) : e \in MockExceptions}
Analyzers  == {RealAnalyzer} \cup {Component("mock", Ret(i)) : i \in MockInsights}
                  \cup {Component("mock", Raise(e)) : e \in MockExceptions}
Optimizers == {RealOptimizer} \cup {Component("mock", Ret(b)) : b \in BOOLEAN}
                  \cup {Component("mock", Raise(e)) : e \in MockExceptions}

\* ------------------------------------------------------------- actions
Init ==
    /\ heap = << >>
    /\ metrics = 0
    /\ db = EmptyDb
    /\ nStored = 0
    /\ recent = 0
    /\ last = Blank

\* agent = FeedbackCollectorAgent(): a new collector, holding {}.
NewAgent ==
    /\ metrics' = 0
    /\ recent' = 0
    /\ last' = [Blank EXCEPT !.op = "new_agent"]
    /\ UNCHANGED <<heap, db, nStored>>

\* collector.collect_data()
CollectData(now) ==
    LET c == collect_data(heap, metrics, now)
    IN  /\ Len(c.heap) <= MaxHeap
        /\ heap' = c.heap
        /\ metrics' = c.metrics
        /\ recent' = c.ref
        /\ last' = [Blank EXCEPT !.op = "collect_data", !.ref = c.ref,
                                 !.data = c.out.val, !.outcome = "dict"]
        /\ UNCHANGED <<db, nStored>>

\* collector.store_data(data)
StoreData(data) ==
    LET s == store_data(db, data)
    IN  /\ Len(s.db.rows) <= MaxRows
        /\ s.db.open <= MaxLeaks
        /\ db' = s.db
        /\ nStored' = IF s.out.raised THEN nStored ELSE nStored + 1
        /\ last' = [Blank EXCEPT !.op = "store_data", !.data = data,
                                 !.outcome = IF s.out.raised THEN "raise" ELSE "none",
                                 !.exc = s.out.exc]
        /\ UNCHANGED <<heap, metrics, recent>>

RunRecord(r) ==
    [op |-> "collect_and_analyze",
     ref |-> r.ref, calls |-> r.calls, data |-> r.data, insights |-> r.insights,
     applied |-> r.applied, colRet |-> r.colRet, anaRet |-> r.anaRet, optRet |-> r.optRet,
     stepExc |-> r.stepExc, outcome |-> r.outcome, exc |-> r.exc]

\* An agent whose collect_and_analyze also stores what it collected.
CollectAndAnalyzeWithStoring(col, ana, opt, now) ==
    LET r == collect_and_analyze(col, ana, opt, heap, metrics, now)
    IN  /\ Len(r.heap) <= MaxHeap
        /\ heap' = r.heap
        /\ metrics' = r.metrics
        /\ recent' = IF r.ref = 0 THEN recent ELSE r.ref
        /\ last' = RunRecord(r)
        /\ db' = IF r.calls = <<"collect_data">> THEN db ELSE store_data(db, r.data).db
        /\ UNCHANGED nStored

\* agent.collect_and_analyze(), the agent's components being col, ana and opt
\* (each the one __init__ installed, or a stand-in assigned in its place)
CollectAndAnalyzeWith(col, ana, opt, now) ==
    LET r == collect_and_analyze(col, ana, opt, heap, metrics, now)
    IN  /\ Len(r.heap) <= MaxHeap
        /\ heap' = r.heap
        /\ metrics' = r.metrics
        /\ recent' = IF r.ref = 0 THEN recent ELSE r.ref
        /\ last' = RunRecord(r)
        /\ UNCHANGED <<db, nStored>>

\* agent.collect_and_analyze() of the agent as __init__ builds it
CollectAndAnalyze(now) ==
    CollectAndAnalyzeWith(RealCollector, RealAnalyzer, RealOptimizer, now)

\* analyzer.analyze_data(data)
AnalyzeData(data) ==
    LET a == analyze_data(data)
    IN  /\ last' = [Blank EXCEPT !.op = "analyze_data", !.data = data,
                                 !.insights = IF a.raised THEN EmptyDict ELSE a.val,
                                 !.outcome = IF a.raised THEN "raise" ELSE "dict",
                                 !.exc = a.exc]
        /\ UNCHANGED <<heap, metrics, db, nStored, recent>>

\* optimizer.apply_recommendation(recommendation)
ApplyRecommendation(recommendation) ==
    LET o == apply_recommendation(recommendation)
    IN  /\ last' = [Blank EXCEPT !.op = "apply_recommendation",
                                 !.insights = recommendation,
                                 !.applied = <<recommendation>>,
                                 !.optRet = BoolName(o.val),
                                 !.outcome = BoolName(o.val)]
        /\ UNCHANGED <<heap, metrics, db, nStored, recent>>

\* The program as written: agents, their collector, the database.
Next ==
    \/ NewAgent
    \/ \E now \in Clock : CollectData(now)
    \/ \E data \in StoreArgs : StoreData(data)
    \/ \E now \in Clock : CollectAndAnalyze(now)

Spec == Init /\ [][Next]_vars

\* The components one by one, and the agent with stand-ins for them, over a
\* database that earlier store_data calls left.
StoredBefore == {EmptyDb, store_data(EmptyDb, StubSnapshot(1)).db}

InitParts ==
    /\ heap = << >>
    /\ metrics = 0
    /\ db \in StoredBefore
    /\ nStored = Len(db.rows)
    /\ recent = 0
    /\ last = Blank

\* A stand-in that is never called, and a clock that is never read, are not
\* varied: after a collector that raises the analyzer is not reached, after an
\* analyzer that raises or returns {} the optimizer is not reached.
ClockOf(col) == IF col.kind = "real" THEN Clock ELSE {1}
AnalyzersAfter(col) == IF col.out.raised THEN {RealAnalyzer} ELSE Analyzers
OptimizersAfter(col, ana) ==
    IF col.out.raised \/ (ana.kind = "mock" /\ (ana.out.raised \/ ~Truthy(ana.out.val)))
    THEN {RealOptimizer} ELSE Optimizers

NextParts ==
    \/ \E data \in AnalyzeArgs : AnalyzeData(data)
    \/ \E recommendation \in ApplyArgs : ApplyRecommendation(recommendation)
    \/ \E col \in Collectors : \E ana \in AnalyzersAfter(col) :
          \E opt \in OptimizersAfter(col, ana) : \E now \in ClockOf(col) :
             CollectAndAnalyzeWith(col, ana, opt, now)

SpecParts == InitParts /\ [][NextParts]_vars

\* ------------------------------------------------------------- claims
IsRun(l) == l.op = "collect_and_analyze"
NoRepeat(calls) == \A i, j \in 1..Len(calls) : calls[i] = calls[j] => i = j
Called(l, step) == \E i \in 1..Len(l.calls) : l.calls[i] = step

\* C1: when the analyzer returns an empty mapping collect_and_analyze returns
\* true without calling the optimizer; when it returns a non-empty mapping,
\* apply_recommendation is called exactly once, with that mapping, and what
\* it returns is what collect_and_analyze returns.
C1_OrchestratorResult ==
    IsRun(last) /\ last.anaRet = "dict" =>
        IF last.insights = EmptyDict
        THEN /\ last.applied = << >>
             /\ ~Called(last, "apply_recommendation")
             /\ last.outcome = "true"
        ELSE /\ last.applied = <<last.insights>>
             /\ Len(SelectSeq(last.calls, LAMBDA x : x = "apply_recommendation")) = 1
             /\ (last.optRet \in {"true", "false"} => last.outcome = last.optRet)

\* A run in which the optimizer was given a non-empty mapping and returned
\* false, which the run returned.
C1_Witness ==
    /\ IsRun(last)
    /\ DOMAIN last.insights = {"disk"}
    /\ last.optRet = "false"
    /\ last.outcome = "false"

\* The step that failed is the last one called, and no step was called twice.
StopsAtFailure(l) ==
    /\ NoRepeat(l.calls)
    /\ l.colRet = "raise" => l.calls = <<"collect_data">>
    /\ l.anaRet = "raise" => l.calls = <<"collect_data", "analyze_data">>
    /\ l.optRet = "raise" =>
           l.calls = <<"collect_data", "analyze_data", "apply_recommendation">>

Failed(l) == IsRun(l) /\ "raise" \in {l.colRet, l.anaRet, l.optRet}

\* C2 as stated: whatever exception a step raises, collect_and_analyze returns
\* false, nothing propagates, no later step runs and nothing is retried.
C2_AnyExceptionEndsFalse ==
    Failed(last) => last.outcome = "false" /\ last.exc = NoExc /\ StopsAtFailure(last)

\* C2 as amended: when a step raises an instance of Exception whose str()
\* returns, collect_and_analyze returns false and nothing propagates; whatever
\* a step raises, no later step runs and nothing is retried.
C2_ExceptionEndsFalse ==
    Failed(last) =>
        /\ StopsAtFailure(last)
        /\ (last.stepExc.isException /\ ~last.stepExc.strFails =>
                last.outcome = "false" /\ last.exc = NoExc)

\* The optimizer raised an Exception: the run returned false.
C2_Witness ==
    /\ IsRun(last)
    /\ last.optRet = "raise"
    /\ last.stepExc = RuntimeError
    /\ last.outcome = "false"

\* C3: analyze_data of a snapshot with cpu_usage 75.0 and memory_usage 85.0
\* returns a mapping with the key 'memory'.
C3_StubSnapshotFlagsMemory ==
    /\ last.op = "analyze_data"
    /\ Get(last.data, "cpu_usage") = RealV(75)
    /\ Get(last.data, "memory_usage") = RealV(85)
    => "memory" \in DOMAIN last.insights

\* C4: for numbers cpu_usage and memory_usage, analyze_data returns a mapping
\* with the key 'cpu' exactly when cpu_usage > 80.0 and the key 'memory'
\* exactly when memory_usage > 85.0, and no other key.
C4_AnalyzerKeys ==
    /\ last.op = "analyze_data"
    /\ IsNumber(Get(last.data, "cpu_usage"))
    /\ IsNumber(Get(last.data, "memory_usage"))
    => /\ last.outcome = "dict"
       /\ DOMAIN last.insights =
             {k \in {"cpu"} : last.data["cpu_usage"].n > 80}
                \cup {k \in {"memory"} : last.data["memory_usage"].n > 85}

\* cpu_usage at its threshold and memory_usage above its own: memory alone.
C4_Witness ==
    /\ last.op = "analyze_data"
    /\ Get(last.data, "cpu_usage") = RealV(80)
    /\ Get(last.data, "memory_usage") = RealV(86)
    /\ DOMAIN last.insights = {"memory"}

\* C5: apply_recommendation returns true exactly when its mapping has the key
\* 'cpu' or the key 'memory': true for a memory-only mapping, false for {}.
C5_OptimizerResult ==
    last.op = "apply_recommendation" =>
        /\ last.outcome \in {"true", "false"}
        /\ last.outcome = "true" <=>
               ("cpu" \in DOMAIN last.insights \/ "memory" \in DOMAIN last.insights)
        /\ (DOMAIN last.insights = {"memory"} => last.outcome = "true")
        /\ (last.insights = EmptyDict => last.outcome = "false")

C5_Witness ==
    /\ last.op = "apply_recommendation"
    /\ DOMAIN last.insights = {"memory"}
    /\ last.outcome = "true"

\* C6: every run of the agent as built finds no insight, calls
\* apply_recommendation not at all, and returns true.
C6_StubNeverFlags ==
    IsRun(last) =>
        /\ last.insights = EmptyDict
        /\ last.anaRet = "dict"
        /\ last.applied = << >>
        /\ ~Called(last, "apply_recommendation")
        /\ last.outcome = "true"

\* A second run, over the stub's 85.0 again.
C6_Witness ==
    /\ IsRun(last)
    /\ last.ref = 2
    /\ metrics = 2
    /\ recent = 2
    /\ Get(last.data, "memory_usage") = RealV(85)

\* C7: a collect_data call adds one record with the stub's values and leaves
\* the records built before as they were, no other call changes or adds a
\* record, and the collector holds {} or what its latest collect_data returned.
C7_SnapshotsImmutable ==
    [][/\ Len(heap') >= Len(heap)
       /\ \A i \in 1..Len(heap) : heap'[i] = heap[i]
       /\ IF last'.op \in {"collect_data", "collect_and_analyze"}
          THEN /\ Len(heap') = Len(heap) + 1
               /\ last'.ref = Len(heap')
               /\ last'.data = heap'[last'.ref]
               /\ heap'[last'.ref].cpu_usage = RealV(75)
               /\ heap'[last'.ref].memory_usage = RealV(85)
               /\ heap'[last'.ref].system_id = TextV("primary_server", 0)
               /\ heap'[last'.ref].timestamp.t = "text"
          ELSE heap' = heap
       /\ metrics' = recent'
       /\ metrics' = 0 \/ metrics' = Len(heap')]_vars

\* Two records of different clock readings, the second one held, after a store.
C7_Witness ==
    /\ Len(heap) = 2
    /\ heap[1].timestamp # heap[2].timestamp
    /\ metrics = 2
    /\ last.op = "store_data"
    /\ last.data = heap[1]

Stored(l) == l.op = "store_data" /\ l.outcome = "none"

RowEquals(r, data) ==
    /\ PyEq(r.timestamp, data["timestamp"])
    /\ PyEq(r.cpu_usage, data["cpu_usage"])
    /\ PyEq(r.memory_usage, data["memory_usage"])
    /\ PyEq(r.system_id, data["system_id"])

IdsIncrease(rows) == \A i, j \in 1..Len(rows) : i < j => rows[i].id < rows[j].id

\* Every step keeps the rows there were; a store_data that returned added one
\* row, with a new greatest id; no other step added a row.
AppendOnly ==
    /\ Len(db'.rows) >= Len(db.rows)
    /\ \A i \in 1..Len(db.rows) : db'.rows[i] = db.rows[i]
    /\ Len(db'.rows) = Len(db.rows) + (IF Stored(last') THEN 1 ELSE 0)
    /\ Len(db'.rows) = nStored'
    /\ IdsIncrease(db'.rows)

\* C8 as stated: a store_data that returns adds exactly one row, whose fields
\* equal those of data; the rows there were stay, n calls leave n rows with
\* ids increasing in call order.
C8_RowEqualsData ==
    [][/\ AppendOnly
       /\ Stored(last') => RowEquals(db'.rows[Len(db'.rows)], last'.data)]_vars

\* The types collect_data gives the fields, or None.
TypedAsCollected(data) ==
    /\ data["timestamp"].t \in {"text", "none"}
    /\ data["system_id"].t \in {"text", "none"}
    /\ data["cpu_usage"].t \in {"real", "none"}
    /\ data["memory_usage"].t \in {"real", "none"}

\* C8 as amended: the same, the new row's fields being equal to those of data
\* when data's timestamp and system_id are texts or None and its cpu_usage and
\* memory_usage floats or None.
C8_RowEqualsTypedData ==
    [][/\ AppendOnly
       /\ Stored(last') /\ TypedAsCollected(last'.data) =>
              RowEquals(db'.rows[Len(db'.rows)], last'.data)]_vars

\* The same record stored twice: two rows that differ in their id alone.
C8_Witness ==
    /\ Len(db.rows) = 2
    /\ nStored = 2
    /\ Stored(last)
    /\ Len(heap) >= 1
    /\ last.data = heap[1]
    /\ db.rows[1].id # db.rows[2].id
    /\ [db.rows[1] EXCEPT !.id = 0] = [db.rows[2] EXCEPT !.id = 0]

\* C9: a run of collect_and_analyze, however it ends, leaves the database as
\* it was: the table, its rows, the counter and the connections.
C9_RunLeavesDatabase ==
    [][IsRun(last') => db' = db]_vars

\* A run that returned false over a table that holds a row.
C9_Witness ==
    /\ IsRun(last)
    /\ last.outcome = "false"
    /\ Len(db.rows) = 1

Lacking(data) == MissingColumns(data) # {}

\* C10: store_data of a dict that lacks a column raises to its caller, adds no
\* row and changes none, has created the table, and leaves its connection open.
C10_MissingFieldRaises ==
    [][last'.op = "store_data" /\ Lacking(last'.data) =>
           /\ last'.outcome = "raise"
           /\ last'.exc = KeyError
           /\ db'.rows = db.rows
           /\ db'.seq = db.seq
           /\ db'.exists
           /\ db'.open = db.open + 1]_vars

\* The first store_data ever, of a dict that lacks system_id alone.
C10_Witness ==
    /\ last.op = "store_data"
    /\ DOMAIN last.data = {"timestamp", "cpu_usage", "memory_usage"}
    /\ last.outcome = "raise"
    /\ db.exists
    /\ db.rows = << >>
    /\ db.open = 1

====
